---- MODULE Spec2Model ----
(***************************************************************************)
(* Model of Opm::GridManager (opm/core/grid/GridManager.cpp): the          *)
(* constructors, the deck interpretation, the corner-point extraction      *)
(* (createGrdecl, also called on its own), the tensor-grid path and the    *)
(* destructor; and mx_init_grdecl (mxgrdecl.c).                            *)
(*                                                                         *)
(* Doubles are modelled as integers.  A pointer is modelled as the name of *)
(* the storage it points into; a grdecl carries pointers and dims only,    *)
(* never an array length.  The result of a C grid builder (a mesh or NULL) *)
(* is an input of the constructor that calls it.                           *)
(***************************************************************************)
EXTENDS Integers, Sequences, FiniteSets, TLC

\* ------------------------------------------------------------------------
\* Bounds of the model
\* ------------------------------------------------------------------------
\* largest cell count along one axis, and longest DXV/DYV/DZV vector
MaxDim == 2
\* largest cell extent (a delta, or a cartesian cell size)
MaxDelta == 2

\* ------------------------------------------------------------------------
\* Decks
\* ------------------------------------------------------------------------
Keywords ==
    {"ZCORN", "COORD", "ACTNUM", "DIMENS", "SPECGRID", "MAPAXES",
     "DXV", "DYV", "DZV", "DEPTHZ", "TOPS"}

\* Deck::hasKeyword
hasKeyword(deck, name) == name \in deck.kw

\* Deck::getKeyword(name)->getSIDoubleData() / getIntData()
getData(deck, name) == deck.data[name]

\* keyword->getRecord(0)->getItem(i)->getInt(0), items numbered from 0
getItem(deck, name, i) == deck.data[name][i + 1]

\* a null data pointer, and a null UnstructuredGrid*
NULL == "NULL"
NullGrid == 0
\* the mesh a builder returns when it succeeds
Mesh == 1

\* what a call that may throw leaves behind:
\*   thrown/err  whether OPM_THROW was reached, and its message
\*   kind        the exception type OPM_THROW was given ("" when not thrown)
\*   ug          the value assigned to ug_ (NullGrid when none was)
\*   path        the init function the deck constructor dispatched to
\*   dims        the local `dims` of that function (<<>> when never set)
\*   calls       the builder calls made, in order, with their arguments
\*               and the handle each returned
\*   heap        the buffers it malloc'ed, in order, each with its
\*               contents and the number of times it has been freed
NoHeap == <<>>
Throw(msg, calls, heap) ==
    [thrown |-> TRUE, err |-> msg, kind |-> "std::runtime_error",
     ug |-> NullGrid, path |-> "none", dims |-> <<>>,
     calls |-> calls, heap |-> heap]
\* Built without the test of ug_
Built_NoNullCheck(ug, msg, calls, heap) ==
    [thrown |-> FALSE, err |-> "", kind |-> "",
     ug |-> ug, path |-> "none", dims |-> <<>>,
     calls |-> calls, heap |-> heap]

\* ug_ = <builder>(...); if (!ug_) OPM_THROW(msg);
Built(ug, msg, calls, heap) ==
    IF ug = NullGrid
    THEN Throw(msg, calls, heap)
    ELSE [thrown |-> FALSE, err |-> "", kind |-> "",
          ug |-> ug, path |-> "none", dims |-> <<>>,
          calls |-> calls, heap |-> heap]

\* ------------------------------------------------------------------------
\* GridManager::createGrdecl
\* ------------------------------------------------------------------------
\* std::array<int,3> dims of createGrdecl; <<>> when the deck has neither
\* DIMENS nor SPECGRID (the OPM_THROW branch)
\* createGrdeclDims looking at SPECGRID before DIMENS
createGrdeclDims_SpecgridFirst(deck) ==
    IF hasKeyword(deck, "SPECGRID")
    THEN <<getItem(deck, "SPECGRID", 0), getItem(deck, "SPECGRID", 1), getItem(deck, "SPECGRID", 2)>>
    ELSE IF hasKeyword(deck, "DIMENS")
    THEN <<getItem(deck, "DIMENS", 0), getItem(deck, "DIMENS", 1), getItem(deck, "DIMENS", 2)>>
    ELSE <<>>

createGrdeclDims(deck) ==
    IF hasKeyword(deck, "DIMENS")
    THEN <<getItem(deck, "DIMENS", 0), getItem(deck, "DIMENS", 1), getItem(deck, "DIMENS", 2)>>
    ELSE IF hasKeyword(deck, "SPECGRID")
    THEN <<getItem(deck, "SPECGRID", 0), getItem(deck, "SPECGRID", 1), getItem(deck, "SPECGRID", 2)>>
    ELSE <<>>

\* the malloc'ed copy of the MAPAXES record
createGrdeclMapaxes(deck) ==
    IF hasKeyword(deck, "MAPAXES")
    THEN <<[data |-> getData(deck, "MAPAXES"), frees |-> 0]>>
    ELSE NoHeap

createGrdecl(deck) ==
    LET dims == createGrdeclDims(deck) IN
    IF dims = <<>>
    THEN [thrown |-> TRUE, err |-> "Deck must have either DIMENS or SPECGRID.",
          grdecl |-> <<>>, heap |-> NoHeap]
    ELSE [thrown |-> FALSE, err |-> "",
          grdecl |-> [zcorn   |-> "deck.ZCORN",
                      coord   |-> "deck.COORD",
                      actnum  |-> IF hasKeyword(deck, "ACTNUM") THEN "deck.ACTNUM" ELSE NULL,
                      dims    |-> dims,
                      mapaxes |-> IF hasKeyword(deck, "MAPAXES") THEN "heap.cWtfMapaxes" ELSE NULL],
          heap |-> createGrdeclMapaxes(deck)]

\* ------------------------------------------------------------------------
\* GridManager::initFromDeckCornerpoint
\* ------------------------------------------------------------------------
\* create_grid_cornerpoint(&grdecl, 0.0) reads through the pointers of the
\* grdecl and frees none of them; `ug` is the handle it returns
CornerpointCall(grdecl, ug) ==
    [builder |-> "create_grid_cornerpoint", grdecl |-> grdecl, tol |-> 0, returned |-> ug]

initFromDeckCornerpoint(deck, ug) ==
    LET g == createGrdecl(deck) IN
    IF g.thrown
    THEN Throw(g.err, <<>>, g.heap)
    ELSE [Built(ug, "Failed to construct grid.", <<CornerpointCall(g.grdecl, ug)>>, g.heap)
            EXCEPT !.dims = g.grdecl.dims]

\* ------------------------------------------------------------------------
\* GridManager::initFromDeckTensorgrid
\* ------------------------------------------------------------------------
\* std::partial_sum(first, last, out): out[0] = first[0],
\* out[i] = out[i-1] + first[i]
RECURSIVE partial_sum(_)
partial_sum(v) ==
    IF Len(v) = 0 THEN <<>>
    ELSE IF Len(v) = 1 THEN v
    ELSE LET head == partial_sum(SubSeq(v, 1, Len(v) - 1))
         IN  Append(head, head[Len(head)] + v[Len(v)])

\* coordsFromDeltas copying the deltas instead of summing them
coordsFromDeltas_NoSum(deltas) == <<0>> \o deltas

coordsFromDeltas(deltas) == <<0>> \o partial_sum(deltas)

tensorgridDims(deck) ==
    IF hasKeyword(deck, "DIMENS")
    THEN <<getItem(deck, "DIMENS", 0), getItem(deck, "DIMENS", 1), getItem(deck, "DIMENS", 2)>>
    ELSE IF hasKeyword(deck, "SPECGRID")
    THEN <<getItem(deck, "SPECGRID", 0), getItem(deck, "SPECGRID", 1), getItem(deck, "SPECGRID", 2)>>
    ELSE <<>>

\* tensorgridSizeError without the check of DZV
tensorgridSizeError_NoDzv(dims, dxv, dyv, dzv) ==
    IF dims[1] # Len(dxv)
    THEN "Number of DXV data points do not match DIMENS or SPECGRID."
    ELSE IF dims[2] # Len(dyv)
    THEN "Number of DYV data points do not match DIMENS or SPECGRID."
    ELSE ""

\* the error of the three size checks against DIMENS/SPECGRID, "" if none
tensorgridSizeError(dims, dxv, dyv, dzv) ==
    IF dims[1] # Len(dxv)
    THEN "Number of DXV data points do not match DIMENS or SPECGRID."
    ELSE IF dims[2] # Len(dyv)
    THEN "Number of DYV data points do not match DIMENS or SPECGRID."
    ELSE IF dims[3] # Len(dzv)
    THEN "Number of DZV data points do not match DIMENS or SPECGRID."
    ELSE ""

\* std::count(tops.begin(), tops.end(), tops[0])
count(v, val) == Cardinality({i \in 1..Len(v) : v[i] = val})

\* top_depths_vec.resize(n, val) of an empty vector
resize(n, val) == [i \in 1..n |-> val]

NonuniformTopsError ==
    "We do not support nonuniform TOPS, please use ZCORN/COORDS instead."

\* tensorgridTopDepths broadcasting TOPS over the cells, not the nodes
tensorgridTopDepths_PerCell(deck, x, y) ==
    IF hasKeyword(deck, "DEPTHZ")
    THEN LET depthz == getData(deck, "DEPTHZ") IN
         IF Len(depthz) # Len(x) * Len(y)
         THEN [err |-> "Incorrect size of DEPTHZ: " \o ToString(Len(depthz)),
               top_depths |-> NULL, top_depths_vec |-> <<>>]
         ELSE [err |-> "", top_depths |-> "deck.DEPTHZ", top_depths_vec |-> <<>>]
    ELSE IF hasKeyword(deck, "TOPS")
    THEN LET tops == getData(deck, "TOPS") IN
         IF count(tops, tops[1]) # Len(tops)
         THEN [err |-> NonuniformTopsError, top_depths |-> NULL, top_depths_vec |-> <<>>]
         ELSE [err |-> "", top_depths |-> "top_depths_vec",
               top_depths_vec |-> resize((Len(x) - 1) * (Len(y) - 1), tops[1])]
    ELSE [err |-> "", top_depths |-> NULL, top_depths_vec |-> <<>>]

\* tensorgridTopDepths comparing DEPTHZ with the number of cells
tensorgridTopDepths_DepthzPerCell(deck, x, y) ==
    IF hasKeyword(deck, "DEPTHZ")
    THEN LET depthz == getData(deck, "DEPTHZ") IN
         IF Len(depthz) # (Len(x) - 1) * (Len(y) - 1)
         THEN [err |-> "Incorrect size of DEPTHZ: " \o ToString(Len(depthz)),
               top_depths |-> NULL, top_depths_vec |-> <<>>]
         ELSE [err |-> "", top_depths |-> "deck.DEPTHZ", top_depths_vec |-> <<>>]
    ELSE IF hasKeyword(deck, "TOPS")
    THEN LET tops == getData(deck, "TOPS") IN
         IF count(tops, tops[1]) # Len(tops)
         THEN [err |-> NonuniformTopsError, top_depths |-> NULL, top_depths_vec |-> <<>>]
         ELSE [err |-> "", top_depths |-> "top_depths_vec",
               top_depths_vec |-> resize(Len(x) * Len(y), tops[1])]
    ELSE [err |-> "", top_depths |-> NULL, top_depths_vec |-> <<>>]

\* tensorgridTopDepths looking at TOPS before DEPTHZ
tensorgridTopDepths_TopsFirst(deck, x, y) ==
    IF hasKeyword(deck, "TOPS")
    THEN LET tops == getData(deck, "TOPS") IN
         IF count(tops, tops[1]) # Len(tops)
         THEN [err |-> NonuniformTopsError, top_depths |-> NULL, top_depths_vec |-> <<>>]
         ELSE [err |-> "", top_depths |-> "top_depths_vec",
               top_depths_vec |-> resize(Len(x) * Len(y), tops[1])]
    ELSE IF hasKeyword(deck, "DEPTHZ")
    THEN LET depthz == getData(deck, "DEPTHZ") IN
         IF Len(depthz) # Len(x) * Len(y)
         THEN [err |-> "Incorrect size of DEPTHZ: " \o ToString(Len(depthz)),
               top_depths |-> NULL, top_depths_vec |-> <<>>]
         ELSE [err |-> "", top_depths |-> "deck.DEPTHZ", top_depths_vec |-> <<>>]
    ELSE [err |-> "", top_depths |-> NULL, top_depths_vec |-> <<>>]

\* the top-depth step: the error thrown ("" if none), the pointer
\* top_depths and the contents of top_depths_vec
tensorgridTopDepths(deck, x, y) ==
    IF hasKeyword(deck, "DEPTHZ")
    THEN LET depthz == getData(deck, "DEPTHZ") IN
         IF Len(depthz) # Len(x) * Len(y)
         THEN [err |-> "Incorrect size of DEPTHZ: " \o ToString(Len(depthz)),
               top_depths |-> NULL, top_depths_vec |-> <<>>]
         ELSE [err |-> "", top_depths |-> "deck.DEPTHZ", top_depths_vec |-> <<>>]
    ELSE IF hasKeyword(deck, "TOPS")
    THEN LET tops == getData(deck, "TOPS") IN
         IF count(tops, tops[1]) # Len(tops)
         THEN [err |-> NonuniformTopsError, top_depths |-> NULL, top_depths_vec |-> <<>>]
         ELSE [err |-> "", top_depths |-> "top_depths_vec",
               top_depths_vec |-> resize(Len(x) * Len(y), tops[1])]
    ELSE [err |-> "", top_depths |-> NULL, top_depths_vec |-> <<>>]

Tensor3dCall(dxv, dyv, dzv, x, y, z, top, ug) ==
    [builder |-> "create_grid_tensor3d",
     nx |-> Len(dxv), ny |-> Len(dyv), nz |-> Len(dzv),
     x |-> x, y |-> y, z |-> z,
     top_depths |-> top.top_depths, top_depths_vec |-> top.top_depths_vec,
     returned |-> ug]

initFromDeckTensorgrid(deck, ug) ==
    LET dims == tensorgridDims(deck) IN
    IF dims = <<>>
    THEN Throw("Deck must have either DIMENS or SPECGRID.", <<>>, NoHeap)
    ELSE
    LET dxv == getData(deck, "DXV")
        dyv == getData(deck, "DYV")
        dzv == getData(deck, "DZV")
        x == coordsFromDeltas(dxv)
        y == coordsFromDeltas(dyv)
        z == coordsFromDeltas(dzv)
        sizeErr == tensorgridSizeError(dims, dxv, dyv, dzv)
    IN
    IF sizeErr # ""
    THEN [Throw(sizeErr, <<>>, NoHeap) EXCEPT !.dims = dims]
    ELSE
    LET top == tensorgridTopDepths(deck, x, y) IN
    IF top.err # ""
    THEN [Throw(top.err, <<>>, NoHeap) EXCEPT !.dims = dims]
    ELSE [Built(ug, "Failed to construct grid.",
                <<Tensor3dCall(dxv, dyv, dzv, x, y, z, top, ug)>>, NoHeap)
            EXCEPT !.dims = dims]

\* ------------------------------------------------------------------------
\* The constructors
\* ------------------------------------------------------------------------
DeckError ==
    "Could not initialize grid from deck. Need either ZCORN + COORD or DXV + DYV + DZV keywords."

\* GridManagerDeck testing for the tensor keywords first
GridManagerDeck_TensorFirst(deck, ug) ==
    IF hasKeyword(deck, "DXV") /\ hasKeyword(deck, "DYV") /\ hasKeyword(deck, "DZV")
    THEN [initFromDeckTensorgrid(deck, ug) EXCEPT !.path = "tensorgrid"]
    ELSE IF hasKeyword(deck, "ZCORN") /\ hasKeyword(deck, "COORD")
    THEN [initFromDeckCornerpoint(deck, ug) EXCEPT !.path = "cornerpoint"]
    ELSE Throw(DeckError, <<>>, NoHeap)

\* GridManagerDeck taking the corner-point path on ZCORN or COORD alone
GridManagerDeck_CornerOr(deck, ug) ==
    IF hasKeyword(deck, "ZCORN") \/ hasKeyword(deck, "COORD")
    THEN [initFromDeckCornerpoint(deck, ug) EXCEPT !.path = "cornerpoint"]
    ELSE IF hasKeyword(deck, "DXV") /\ hasKeyword(deck, "DYV") /\ hasKeyword(deck, "DZV")
    THEN [initFromDeckTensorgrid(deck, ug) EXCEPT !.path = "tensorgrid"]
    ELSE Throw(DeckError, <<>>, NoHeap)

\* GridManager(Opm::DeckConstPtr deck)
GridManagerDeck(deck, ug) ==
    IF hasKeyword(deck, "ZCORN") /\ hasKeyword(deck, "COORD")
    THEN [initFromDeckCornerpoint(deck, ug) EXCEPT !.path = "cornerpoint"]
    ELSE IF hasKeyword(deck, "DXV") /\ hasKeyword(deck, "DYV") /\ hasKeyword(deck, "DZV")
    THEN [initFromDeckTensorgrid(deck, ug) EXCEPT !.path = "tensorgrid"]
    ELSE Throw(DeckError, <<>>, NoHeap)

\* std::vector::data() of the local vector `name` holding size elements:
\* a pointer into the vector, and the null pointer for a vector that an
\* export function left empty (as this build's standard library gives for
\* a vector that never allocated; the standard leaves that value open)
vector_data(name, size) == IF size = 0 THEN NULL ELSE name

\* GridManager(Opm::EclipseGridConstPtr eclipseGrid): the grdecl points into
\* the local vectors as the export functions left them; eg gives getNX,
\* getNY, getNZ and the number of elements each export puts in its vector
GridManagerEclipseGrid(eg, ug) ==
    Built(ug, "Failed to construct grid.",
          <<CornerpointCall([zcorn   |-> vector_data("zcorn", eg.zcorn),
                             coord   |-> vector_data("coord", eg.coord),
                             actnum  |-> vector_data("actnum", eg.actnum),
                             dims    |-> <<eg.nx, eg.ny, eg.nz>>,
                             mapaxes |-> vector_data("mapaxes", eg.mapaxes)], ug)>>,
          NoHeap)

\* GridManager(int nx, int ny)
GridManagerCart2d(nx, ny, ug) ==
    Built(ug, "Failed to construct grid.",
          <<[builder |-> "create_grid_cart2d", nx |-> nx, ny |-> ny, dx |-> 1, dy |-> 1,
             returned |-> ug]>>,
          NoHeap)

\* GridManager(int nx, int ny, double dx, double dy)
GridManagerCart2dSized(nx, ny, dx, dy, ug) ==
    Built(ug, "Failed to construct grid.",
          <<[builder |-> "create_grid_cart2d", nx |-> nx, ny |-> ny, dx |-> dx, dy |-> dy,
             returned |-> ug]>>,
          NoHeap)

\* GridManager(int nx, int ny, int nz)
GridManagerCart3d(nx, ny, nz, ug) ==
    Built(ug, "Failed to construct grid.",
          <<[builder |-> "create_grid_cart3d", nx |-> nx, ny |-> ny, nz |-> nz,
             returned |-> ug]>>,
          NoHeap)

\* GridManager(int nx, int ny, int nz, double dx, double dy, double dz)
GridManagerHexa3d(nx, ny, nz, dx, dy, dz, ug) ==
    Built(ug, "Failed to construct grid.",
          <<[builder |-> "create_grid_hexa3d", nx |-> nx, ny |-> ny, nz |-> nz,
             dx |-> dx, dy |-> dy, dz |-> dz,
             returned |-> ug]>>,
          NoHeap)

\* GridManagerFile calling read_grid again when it returned NULL
GridManagerFile_Retry(input_filename, ug) ==
    LET call == [builder |-> "read_grid", filename |-> input_filename, returned |-> ug]
    IN  Built(ug, "Failed to read grid from file " \o input_filename,
              IF ug = NullGrid THEN <<call, call>> ELSE <<call>>, NoHeap)

\* GridManager(const std::string& input_filename)
GridManagerFile(input_filename, ug) ==
    Built(ug, "Failed to read grid from file " \o input_filename,
          <<[builder |-> "read_grid", filename |-> input_filename,
             returned |-> ug]>>,
          NoHeap)

\* GridManager::c_grid
c_grid(ug) == ug

\* ------------------------------------------------------------------------
\* Inputs
\* ------------------------------------------------------------------------
\* the logical dimensions a DIMENS or SPECGRID record can declare
DimsSet == (1..MaxDim) \X (1..MaxDim) \X (1..MaxDim)

\* a ZCORN array of n depths: the top corners at depth 0, then the bottom
\* corners at depth 1
Zcorn(n) == [i \in 1..n |-> IF i <= n \div 2 THEN 0 ELSE 1]

\* a COORD array of n numbers: vertical unit-spaced pillars (x, y, 0, x, y, 1),
\* n \div 12 of them along x
Coord(n) ==
    [i \in 1..n |->
        LET p == (i - 1) \div 6
            c == (i - 1) % 6
            w == n \div 12
        IN  CASE c \in {0, 3} -> p % w
              [] c \in {1, 4} -> p \div w
              [] c = 2       -> 0
              [] c = 5       -> 1]

\* a delta vector of n cells: extents in 1..MaxDelta, starting at s + 1 and
\* then cycling through that range
DeltaVec(n, s) == [i \in 1..n |-> ((i + s - 1) % MaxDelta) + 1]

\* a depth field of n nodes with pairwise different depths
DepthField(n) == [i \in 1..n |-> 10 + i]

\* every keyword with the data it has when nothing else is said of it
DefaultData ==
    [k \in Keywords |->
        CASE k = "ZCORN"    -> Zcorn(8)
          [] k = "COORD"    -> Coord(24)
          [] k = "ACTNUM"   -> <<1>>
          [] k = "DIMENS"   -> <<1, 1, 1>>
          [] k = "SPECGRID" -> <<1, 1, 1>>
          [] k = "MAPAXES"  -> <<0, 1, 0, 0, 1, 0>>
          [] k = "DXV"      -> <<1>>
          [] k = "DYV"      -> <<1>>
          [] k = "DZV"      -> <<1>>
          [] k = "DEPTHZ"   -> DepthField(4)
          [] k = "TOPS"     -> <<5>>]

\* the deck that has the keywords kw, with the data `data` for the keywords
\* in its domain and the default data for the others; a keyword the deck
\* has always has data, DIMENS and SPECGRID at least three items
MkDeck(kw, data) ==
    [kw   |-> kw,
     data |-> [k \in Keywords |->
                  IF k \notin kw THEN <<>>
                  ELSE IF k \in DOMAIN data THEN data[k]
                  ELSE DefaultData[k]]]

NoData == [k \in {} |-> <<>>]
EmptyDeck == MkDeck({}, NoData)

\* a deck with the keywords kw, each with its default data
PresenceDeck(kw) == MkDeck(kw, NoData)

\* the ways a deck can declare its dimensions: not at all, by DIMENS, by
\* SPECGRID, or by both
Declared(dimens, specgrid) ==
    [kw   |-> (IF dimens = <<>> THEN {} ELSE {"DIMENS"})
                \cup (IF specgrid = <<>> THEN {} ELSE {"SPECGRID"}),
     data |-> [k \in {"DIMENS", "SPECGRID"} |-> IF k = "DIMENS" THEN dimens ELSE specgrid]]
Declarations ==
    {Declared(d, s) : d \in DimsSet \cup {<<>>}, s \in DimsSet \cup {<<>>}}

\* a corner-point deck: ZCORN of length zl and COORD of length cl, under the
\* declaration decl of the dimensions, with the keywords opt besides
ZcornLens == {8, 9, 16}
CoordLens == {24, 25, 36}
CornerOptions == SUBSET {"ACTNUM", "MAPAXES"}
CornerDeck(zl, cl, decl, opt) ==
    MkDeck({"ZCORN", "COORD"} \cup decl.kw \cup opt,
           [k \in {"ZCORN", "COORD", "DIMENS", "SPECGRID"} |->
               CASE k = "ZCORN" -> Zcorn(zl)
                 [] k = "COORD" -> Coord(cl)
                 [] OTHER       -> decl.data[k]])

\* a tensor deck: DXV, DYV and DZV of the lengths len, under a declaration
\* by DIMENS, by SPECGRID, by both (SPECGRID then differing from DIMENS in
\* every component) or by neither, with DEPTHZ of length dz (0: no DEPTHZ)
\* and with the TOPS values tops (<<>>: no TOPS)
Mirror(d) == <<MaxDim + 1 - d[1], MaxDim + 1 - d[2], MaxDim + 1 - d[3]>>
TensorDeclarations ==
    {Declared(<<>>, <<>>)}
        \cup {Declared(d, <<>>) : d \in DimsSet}
        \cup {Declared(<<>>, d) : d \in DimsSet}
        \cup {Declared(d, Mirror(d)) : d \in DimsSet}
DepthzLens == {(a + 1) * (b + 1) : a \in 1..MaxDim, b \in 1..MaxDim}
TopsSet == {<<5>>, <<5, 5, 5, 5>>, <<5, 5, 6, 5>>}
TensorDeck(len, s, decl, dz, tops) ==
    MkDeck({"DXV", "DYV", "DZV"} \cup decl.kw
               \cup (IF dz = 0 THEN {} ELSE {"DEPTHZ"})
               \cup (IF tops = <<>> THEN {} ELSE {"TOPS"}),
           [k \in {"DXV", "DYV", "DZV", "DIMENS", "SPECGRID", "DEPTHZ", "TOPS"} |->
               CASE k = "DXV"    -> DeltaVec(len[1], s)
                 [] k = "DYV"    -> DeltaVec(len[2], s + 1)
                 [] k = "DZV"    -> DeltaVec(len[3], s + 2)
                 [] k = "DEPTHZ" -> DepthField(dz)
                 [] k = "TOPS"   -> tops
                 [] OTHER        -> decl.data[k]])

\* an EclipseGrid: getNX/getNY/getNZ and the sizes of the vectors after
\* exportMAPAXES (6 doubles or none), exportCOORD, exportZCORN and
\* exportACTNUM (one int per cell or none)
EclipseGrid(nx, ny, nz, hasMapaxes, hasActnum) ==
    [nx |-> nx, ny |-> ny, nz |-> nz,
     mapaxes |-> IF hasMapaxes THEN 6 ELSE 0,
     coord   |-> 6 * (nx + 1) * (ny + 1),
     zcorn   |-> 8 * nx * ny * nz,
     actnum  |-> IF hasActnum THEN nx * ny * nz ELSE 0]
EclipseGrids ==
    {EclipseGrid(nx, ny, nz, m, a) :
        nx \in 1..MaxDim, ny \in 1..MaxDim, nz \in 1..MaxDim, m \in BOOLEAN, a \in BOOLEAN}

Filenames == {"grid.txt", "missing.txt"}

\* what a builder can return
BuilderResults == {NullGrid, Mesh}

\* ------------------------------------------------------------------------
\* mx_init_grdecl (mxgrdecl.c): filling a grdecl from the fields of a
\* MATLAB struct.  An mxArray is its class, its number of elements and its
\* data; the data of cartDims are its doubles, counted in halves (3 is
\* 1.5), the data of another field are the name of its storage.
\* ------------------------------------------------------------------------
mxGetField(s, name) == s[name]
mxGetNumberOfElements(field) == field.numel
mxGetClassID(field) == field.classID
mxGetPr(field) == field.pr
mxGetData(field) == field.pr

\* the conversion of `g->dims[i] = tmp[i]`: a double into an int
DoubleToInt(halves) == halves \div 2

\* a struct grdecl that was declared and not initialised
Uninitialized == "uninitialized"
UninitializedGrdecl ==
    [dims |-> <<Uninitialized, Uninitialized, Uninitialized>>,
     actnum |-> Uninitialized, coord |-> Uninitialized, zcorn |-> Uninitialized]

\* mexErrMsgTxt(msg) does not return: g is left as it is by then
mexErrMsgTxt(g, msg) == [g |-> g, err |-> msg]

\* mx_init_grdecl asking COORD for 6*nx*ny doubles
mx_init_grdecl_CoordPerCell(g, s) ==
    LET cartDims == mxGetField(s, "cartDims")
        tmp == mxGetPr(cartDims)
    IN  IF mxGetNumberOfElements(cartDims) # 3
        THEN mexErrMsgTxt(g, "cartDims field must be 3 numbers")
        ELSE
    LET g1 == [g EXCEPT !.dims = [i \in 1..3 |-> DoubleToInt(tmp[i])]]
        actnum == mxGetField(s, "ACTNUM")
    IN  IF \/ mxGetClassID(actnum) # "mxINT32_CLASS"
           \/ mxGetNumberOfElements(actnum) # g1.dims[1] * g1.dims[2] * g1.dims[3]
        THEN mexErrMsgTxt(g1, "ACTNUM field must be nx*ny*nz numbers int32")
        ELSE
    LET g2 == [g1 EXCEPT !.actnum = mxGetData(actnum)]
        coord == mxGetField(s, "COORD")
    IN  IF \/ mxGetClassID(coord) # "mxDOUBLE_CLASS"
           \/ mxGetNumberOfElements(coord) # 6 * g2.dims[1] * g2.dims[2]
        THEN mexErrMsgTxt(g2, "COORD field must have 6*(nx+1)*(ny+1) doubles.")
        ELSE
    LET g3 == [g2 EXCEPT !.coord = mxGetPr(coord)]
        zcorn == mxGetField(s, "ZCORN")
    IN  IF \/ mxGetClassID(zcorn) # "mxDOUBLE_CLASS"
           \/ mxGetNumberOfElements(zcorn) # 8 * g3.dims[1] * g3.dims[2] * g3.dims[3]
        THEN mexErrMsgTxt(g3, "ZCORN field must have 8*nx*ny*nz doubles.")
        ELSE [g |-> [g3 EXCEPT !.zcorn = mxGetPr(zcorn)], err |-> ""]

\* void mx_init_grdecl(struct grdecl *g, const mxArray *s): g when the
\* function is left, and the message it was left with ("" on return)
mx_init_grdecl(g, s) ==
    LET cartDims == mxGetField(s, "cartDims")
        tmp == mxGetPr(cartDims)
    IN  IF mxGetNumberOfElements(cartDims) # 3
        THEN mexErrMsgTxt(g, "cartDims field must be 3 numbers")
        ELSE
    LET g1 == [g EXCEPT !.dims = [i \in 1..3 |-> DoubleToInt(tmp[i])]]
        actnum == mxGetField(s, "ACTNUM")
    IN  IF \/ mxGetClassID(actnum) # "mxINT32_CLASS"
           \/ mxGetNumberOfElements(actnum) # g1.dims[1] * g1.dims[2] * g1.dims[3]
        THEN mexErrMsgTxt(g1, "ACTNUM field must be nx*ny*nz numbers int32")
        ELSE
    LET g2 == [g1 EXCEPT !.actnum = mxGetData(actnum)]
        coord == mxGetField(s, "COORD")
    IN  IF \/ mxGetClassID(coord) # "mxDOUBLE_CLASS"
           \/ mxGetNumberOfElements(coord) # 6 * (g2.dims[1] + 1) * (g2.dims[2] + 1)
        THEN mexErrMsgTxt(g2, "COORD field must have 6*(nx+1)*(ny+1) doubles.")
        ELSE
    LET g3 == [g2 EXCEPT !.coord = mxGetPr(coord)]
        zcorn == mxGetField(s, "ZCORN")
    IN  IF \/ mxGetClassID(zcorn) # "mxDOUBLE_CLASS"
           \/ mxGetNumberOfElements(zcorn) # 8 * g3.dims[1] * g3.dims[2] * g3.dims[3]
        THEN mexErrMsgTxt(g3, "ZCORN field must have 8*nx*ny*nz doubles.")
        ELSE [g |-> [g3 EXCEPT !.zcorn = mxGetPr(zcorn)], err |-> ""]

\* The structs given to mx_init_grdecl: cartDims of 2, 3 or 4 doubles
\* between 1 and MaxDim, whole or not; ACTNUM, COORD and ZCORN of either
\* class, with the number of elements of some dimensions or another number
MxClasses == {"mxINT32_CLASS", "mxDOUBLE_CLASS"}
MxHalves == 2..(2 * MaxDim)
MxCartDims ==
    {<<a, b, c>> : a \in MxHalves, b \in MxHalves, c \in MxHalves}
        \cup {<<2, 2>>, <<2, 4, 2, 2>>}
ActnumLens == {1, 2, 3}
MxField(name, classID, numel) == [classID |-> classID, numel |-> numel, pr |-> name]
MxStruct(cd, actnum, coord, zcorn) ==
    [cartDims |-> [classID |-> "mxDOUBLE_CLASS", numel |-> Len(cd), pr |-> cd],
     ACTNUM |-> actnum, COORD |-> coord, ZCORN |-> zcorn]
NoStruct ==
    MxStruct(<<>>, MxField("s.ACTNUM", "mxINT32_CLASS", 0),
             MxField("s.COORD", "mxDOUBLE_CLASS", 0), MxField("s.ZCORN", "mxDOUBLE_CLASS", 0))
NoMx == [pc |-> "idle", s |-> NoStruct, g |-> UninitializedGrdecl, err |-> ""]

\* ------------------------------------------------------------------------
\* The state machine: one GridManager, from its construction to its
\* destruction
\* ------------------------------------------------------------------------
VARIABLES
    pc,         \* "start", "alive" (constructed), "failed" (the constructor threw), "destroyed"
    ctor,       \* the constructor that ran
    deck,       \* the deck given to the deck constructor (EmptyDeck otherwise)
    ug_,        \* GridManager::ug_
    err,        \* the message of the exception the constructor threw
    kind,       \* the type of that exception
    calls,      \* the builder calls made, with their arguments
    path,       \* the init function the deck constructor dispatched to
    dims,       \* the local `dims` of that init function
    heap,       \* the malloc'ed buffers: contents and number of frees
    destroyed,  \* the handles destroy_grid was called on, in order
    other,      \* a second GridManager: its pc, its ug_, its builder calls and
                \* the handles its destructor gave to destroy_grid
    standalone, \* a call of the static GridManager::createGrdecl(deck, grdecl) by
                \* a caller that constructs no GridManager: "idle" before it,
                \* then "returned" or "thrown", the deck, the caller's grdecl
                \* (<<>> while createGrdecl has not written it), the message and
                \* the type of the exception
    mx          \* a call of mx_init_grdecl: "idle" before it, then "returned" or
                \* "error", the struct s it was given, the grdecl g and the
                \* message of mexErrMsgTxt

vars == <<pc, ctor, deck, ug_, err, kind, calls, path, dims, heap, destroyed, other, standalone, mx>>

NoOther == [pc |-> "start", ug_ |-> NullGrid, calls |-> <<>>, destroyed |-> <<>>]

\* the addresses a builder can return to the second GridManager
MeshAddresses == {Mesh, Mesh + 1}

\* The grid builders and destroy_grid are not part of the source at hand;
\* they are modelled from the specification: "the builder returns an owned
\* mesh handle or fails".  A mesh is live from the builder call that
\* returned its address until destroy_grid is called on that address, and a
\* builder returns NULL or the address of a mesh that is not live.
NumReturned(a) ==
    Cardinality({i \in DOMAIN calls : calls[i].returned = a})
        + Cardinality({i \in DOMAIN other.calls : other.calls[i].returned = a})
NumDestroyed(a) ==
    Cardinality({i \in DOMAIN destroyed : destroyed[i] = a})
        + Cardinality({i \in DOMAIN other.destroyed : other.destroyed[i] = a})
Live(a) == NumReturned(a) > NumDestroyed(a)
Fresh(ug) == ug = NullGrid \/ ~Live(ug)

NoStandalone == [pc |-> "idle", deck |-> EmptyDeck, grdecl |-> <<>>, err |-> "", kind |-> ""]

Init ==
    /\ pc = "start"
    /\ ctor = "none"
    /\ deck = EmptyDeck
    /\ ug_ = NullGrid
    /\ err = ""
    /\ kind = ""
    /\ calls = <<>>
    /\ path = "none"
    /\ dims = <<>>
    /\ heap = NoHeap
    /\ destroyed = <<>>
    /\ other = NoOther
    /\ standalone = NoStandalone
    /\ mx = NoMx

\* the constructor `name` has run on the deck d with the outcome r
Constructed(name, d, r) ==
    /\ \A i \in DOMAIN r.calls : Fresh(r.calls[i].returned)
    /\ pc' = IF r.thrown THEN "failed" ELSE "alive"
    /\ ctor' = name
    /\ deck' = d
    /\ ug_' = r.ug
    /\ err' = r.err
    /\ kind' = r.kind
    /\ calls' = r.calls
    /\ path' = r.path
    /\ dims' = r.dims
    /\ heap' = heap \o r.heap
    /\ UNCHANGED <<destroyed, other, standalone, mx>>

ConstructDeck ==
    /\ pc = "start"
    /\ standalone.pc = "idle"
    /\ \E ug \in BuilderResults :
        \/ \E kw \in SUBSET Keywords :
              LET d == PresenceDeck(kw)
              IN  Constructed("deck", d, GridManagerDeck(d, ug))
        \/ \E zl \in ZcornLens, cl \in CoordLens, decl \in Declarations,
              opt \in CornerOptions :
              LET d == CornerDeck(zl, cl, decl, opt)
              IN  Constructed("deck", d, GridManagerDeck(d, ug))
        \/ \E len \in DimsSet, s \in 1..MaxDelta, decl \in TensorDeclarations,
              dz \in DepthzLens \cup {0}, tops \in TopsSet \cup {<<>>} :
              LET d == TensorDeck(len, s, decl, dz, tops)
              IN  Constructed("deck", d, GridManagerDeck(d, ug))

ConstructEclipseGrid ==
    /\ pc = "start"
    /\ standalone.pc = "idle"
    /\ \E eg \in EclipseGrids, ug \in BuilderResults :
        Constructed("eclipseGrid", EmptyDeck, GridManagerEclipseGrid(eg, ug))

ConstructCart2d ==
    /\ pc = "start"
    /\ standalone.pc = "idle"
    /\ \E nx \in 1..MaxDim, ny \in 1..MaxDim, ug \in BuilderResults :
        Constructed("cart2d", EmptyDeck, GridManagerCart2d(nx, ny, ug))

ConstructCart2dSized ==
    /\ pc = "start"
    /\ standalone.pc = "idle"
    /\ \E nx \in 1..MaxDim, ny \in 1..MaxDim, dx \in 1..MaxDelta, dy \in 1..MaxDelta,
       ug \in BuilderResults :
        Constructed("cart2dSized", EmptyDeck, GridManagerCart2dSized(nx, ny, dx, dy, ug))

ConstructCart3d ==
    /\ pc = "start"
    /\ standalone.pc = "idle"
    /\ \E nx \in 1..MaxDim, ny \in 1..MaxDim, nz \in 1..MaxDim, ug \in BuilderResults :
        Constructed("cart3d", EmptyDeck, GridManagerCart3d(nx, ny, nz, ug))

ConstructHexa3d ==
    /\ pc = "start"
    /\ standalone.pc = "idle"
    /\ \E nx \in 1..MaxDim, ny \in 1..MaxDim, nz \in 1..MaxDim,
       dx \in 1..MaxDelta, dy \in 1..MaxDelta, dz \in 1..MaxDelta, ug \in BuilderResults :
        Constructed("hexa3d", EmptyDeck, GridManagerHexa3d(nx, ny, nz, dx, dy, dz, ug))

ConstructFile ==
    /\ pc = "start"
    /\ standalone.pc = "idle"
    /\ \E f \in Filenames, ug \in BuilderResults :
        Constructed("file", EmptyDeck, GridManagerFile(f, ug))

\* a destructor that never calls destroy_grid
Destroy_Leak ==
    /\ pc = "alive"
    /\ pc' = "destroyed"
    /\ UNCHANGED <<ctor, deck, ug_, err, kind, calls, path, dims, heap, destroyed, other, standalone, mx>>

\* GridManager::~GridManager: destroy_grid(ug_)
Destroy ==
    /\ pc = "alive"
    /\ pc' = "destroyed"
    /\ destroyed' = Append(destroyed, ug_)
    /\ UNCHANGED <<ctor, deck, ug_, err, kind, calls, path, dims, heap, other, standalone, mx>>

\* the static GridManager::createGrdecl(deck, grdecl) called on its own, on
\* a deck that has ZCORN and COORD: it fills the caller's grdecl, leaves the
\* MAPAXES copy it malloc'ed to the caller, and constructs no GridManager.
\* A behaviour is the life of GridManagers or one such call, not both (the
\* guards on standalone.pc, pc and other.pc): the two have nothing in
\* common but the heap, to which each only adds its own buffer.
CallCreateGrdecl ==
    /\ standalone.pc = "idle"
    /\ pc = "start"
    /\ other.pc = "start"
    /\ \E zl \in ZcornLens, cl \in CoordLens, decl \in Declarations, opt \in CornerOptions :
          LET d == CornerDeck(zl, cl, decl, opt)
              g == createGrdecl(d)
          IN  /\ standalone' = [pc     |-> IF g.thrown THEN "thrown" ELSE "returned",
                                deck   |-> d,
                                grdecl |-> g.grdecl,
                                err    |-> g.err,
                                kind   |-> IF g.thrown THEN "std::runtime_error" ELSE ""]
              /\ heap' = heap \o g.heap
    /\ UNCHANGED <<pc, ctor, deck, ug_, err, kind, calls, path, dims, destroyed, other, mx>>

Next ==
    \/ ConstructDeck
    \/ ConstructEclipseGrid
    \/ ConstructCart2d
    \/ ConstructCart2dSized
    \/ ConstructCart3d
    \/ ConstructHexa3d
    \/ ConstructFile
    \/ Destroy
    \/ CallCreateGrdecl

Spec == Init /\ [][Next]_vars

\* ------------------------------------------------------------------------
\* Two GridManagers. The class declares its copy constructor and its
\* assignment operator private and defines neither, so constructing and
\* destroying are all that can be done to a GridManager; the second one is
\* built from a file.
\* ------------------------------------------------------------------------
\* the deck constructor on the decks that have each keyword or not
ConstructDeckKeywords ==
    /\ pc = "start"
    /\ standalone.pc = "idle"
    /\ \E ug \in BuilderResults, kw \in SUBSET Keywords :
          LET d == PresenceDeck(kw)
          IN  Constructed("deck", d, GridManagerDeck(d, ug))

\* the second GridManager made by the copy constructor the compiler would
\* generate, were it not declared private: it takes the handle of the first
OtherConstruct_Copy ==
    /\ other.pc = "start"
    /\ standalone.pc = "idle"
    /\ pc = "alive"
    /\ other' = [pc |-> "alive", ug_ |-> ug_, calls |-> <<>>, destroyed |-> <<>>]
    /\ UNCHANGED <<pc, ctor, deck, ug_, err, kind, calls, path, dims, heap, destroyed, standalone, mx>>

OtherConstruct ==
    /\ other.pc = "start"
    /\ standalone.pc = "idle"
    /\ \E f \in Filenames, ug \in {NullGrid} \cup MeshAddresses :
          /\ Fresh(ug)
          /\ LET r == GridManagerFile(f, ug)
             IN  other' = [pc        |-> IF r.thrown THEN "failed" ELSE "alive",
                           ug_       |-> r.ug,
                           calls     |-> r.calls,
                           destroyed |-> <<>>]
    /\ UNCHANGED <<pc, ctor, deck, ug_, err, kind, calls, path, dims, heap, destroyed, standalone, mx>>

OtherDestroy ==
    /\ other.pc = "alive"
    /\ other' = [other EXCEPT !.pc = "destroyed",
                              !.destroyed = Append(other.destroyed, other.ug_)]
    /\ UNCHANGED <<pc, ctor, deck, ug_, err, kind, calls, path, dims, heap, destroyed, standalone, mx>>

NextPair ==
    \/ ConstructDeckKeywords
    \/ ConstructEclipseGrid
    \/ ConstructCart2d
    \/ ConstructCart2dSized
    \/ ConstructCart3d
    \/ ConstructHexa3d
    \/ ConstructFile
    \/ Destroy
    \/ OtherConstruct
    \/ OtherDestroy
    \/ CallCreateGrdecl

SpecPair == Init /\ [][NextPair]_vars

\* ------------------------------------------------------------------------
\* The MATLAB binding: one call of mx_init_grdecl on an uninitialised
\* grdecl
\* ------------------------------------------------------------------------
MxInitGrdecl ==
    /\ mx.pc = "idle"
    /\ \E cd \in MxCartDims, ac \in MxClasses, an \in ActnumLens,
          cc \in MxClasses, cn \in CoordLens, zc \in MxClasses, zn \in ZcornLens :
          LET s == MxStruct(cd, MxField("s.ACTNUM", ac, an), MxField("s.COORD", cc, cn),
                            MxField("s.ZCORN", zc, zn))
              r == mx_init_grdecl(UninitializedGrdecl, s)
          IN  mx' = [pc |-> IF r.err = "" THEN "returned" ELSE "error",
                     s |-> s, g |-> r.g, err |-> r.err]
    /\ UNCHANGED <<pc, ctor, deck, ug_, err, kind, calls, path, dims, heap, destroyed, other, standalone>>

NextMx == MxInitGrdecl

SpecMx == Init /\ [][NextMx]_vars

\* ------------------------------------------------------------------------
\* Properties
\* ------------------------------------------------------------------------
Has(name) == hasKeyword(deck, name)
HasCorner == Has("ZCORN") /\ Has("COORD")
HasTensor == Has("DXV") /\ Has("DYV") /\ Has("DZV")
Called(b) == \E i \in 1..Len(calls) : calls[i].builder = b

\* the message a constructor throws when the builder call c returned NULL
NullBuilderError(c) ==
    IF c.builder = "read_grid"
    THEN "Failed to read grid from file " \o c.filename
    ELSE "Failed to construct grid."

\* C1: whichever constructor ran, a GridManager that exists holds the
\* non-null mesh its one builder call returned, and a builder call that
\* returned NULL made the constructor throw 'Failed to construct grid.'
\* ('Failed to read grid from file <path>' for the file constructor), so
\* that no GridManager with a null mesh exists.
C1_ConstructOrFail ==
    /\ pc = "alive" =>
          /\ c_grid(ug_) # NullGrid
          /\ Len(calls) = 1
          /\ calls[1].returned = c_grid(ug_)
    /\ \A i \in 1..Len(calls) :
          calls[i].returned = NullGrid =>
              /\ pc = "failed"
              /\ err = NullBuilderError(calls[i])

C1_Witness ==
    /\ ctor = "file"
    /\ pc = "failed"
    /\ Len(calls) = 1
    /\ calls[1].returned = NullGrid
    /\ err = "Failed to read grid from file missing.txt"

\* C2: the deck constructor takes the corner-point path exactly when the
\* deck has both ZCORN and COORD, whatever else it has, and then never
\* calls the tensor builder; it takes the tensor-grid path exactly when
\* ZCORN and COORD are not both there and DXV, DYV and DZV all are.
C2_FirstMatchWins ==
    ctor = "deck" =>
        /\ (path = "cornerpoint") <=> HasCorner
        /\ (path = "tensorgrid") <=> (~HasCorner /\ HasTensor)
        /\ HasCorner => ~Called("create_grid_tensor3d")
        /\ Called("create_grid_tensor3d") => (~HasCorner /\ HasTensor)
        /\ Called("create_grid_cornerpoint") => HasCorner

C2_Witness ==
    /\ ctor = "deck"
    /\ HasCorner /\ HasTensor /\ Has("DEPTHZ") /\ Has("TOPS")
    /\ path = "cornerpoint"
    /\ pc = "alive"
    /\ Called("create_grid_cornerpoint")

\* C3: a deck that lacks one of ZCORN/COORD and also one of DXV/DYV/DZV
\* makes the deck constructor throw 'Could not initialize grid from deck.
\* Need either ZCORN + COORD or DXV + DYV + DZV keywords.' without any
\* builder call.
C3_UnsupportedDeckFails ==
    (ctor = "deck" /\ ~HasCorner /\ ~HasTensor) =>
        /\ pc = "failed"
        /\ err = "Could not initialize grid from deck. Need either ZCORN + COORD or DXV + DYV + DZV keywords."
        /\ calls = <<>>
        /\ path = "none"

C3_Witness ==
    /\ ctor = "deck"
    /\ Has("ZCORN") /\ ~Has("COORD")
    /\ Has("DXV") /\ Has("DYV") /\ ~Has("DZV")
    /\ Has("DIMENS")
    /\ pc = "failed"
    /\ calls = <<>>

\* C4: on either path of the deck constructor the dimensions are the
\* first three items of DIMENS if the deck has DIMENS (SPECGRID or not),
\* else those of SPECGRID if it has SPECGRID; else the constructor throws
\* 'Deck must have either DIMENS or SPECGRID.' without any builder call.
\* On the corner-point path these are the dims of the grdecl given to the
\* builder.  createGrdecl called on its own resolves the dims of the
\* caller's grdecl the same way, and throws that message, leaving the
\* grdecl unwritten, for a deck with neither.
FirstThree(name) == <<deck.data[name][1], deck.data[name][2], deck.data[name][3]>>
StandaloneFirstThree(name) ==
    <<standalone.deck.data[name][1], standalone.deck.data[name][2], standalone.deck.data[name][3]>>
C4_DimsResolution ==
    /\ standalone.pc # "idle" =>
          IF hasKeyword(standalone.deck, "DIMENS") THEN
              /\ standalone.pc = "returned"
              /\ standalone.grdecl.dims = StandaloneFirstThree("DIMENS")
          ELSE IF hasKeyword(standalone.deck, "SPECGRID") THEN
              /\ standalone.pc = "returned"
              /\ standalone.grdecl.dims = StandaloneFirstThree("SPECGRID")
          ELSE
              /\ standalone.pc = "thrown"
              /\ standalone.err = "Deck must have either DIMENS or SPECGRID."
              /\ standalone.grdecl = <<>>
    /\ (ctor = "deck" /\ path \in {"cornerpoint", "tensorgrid"}) =>
          IF Has("DIMENS") THEN
              /\ dims = FirstThree("DIMENS")
              /\ Called("create_grid_cornerpoint") => calls[1].grdecl.dims = FirstThree("DIMENS")
          ELSE IF Has("SPECGRID") THEN
              /\ dims = FirstThree("SPECGRID")
              /\ Called("create_grid_cornerpoint") => calls[1].grdecl.dims = FirstThree("SPECGRID")
          ELSE
              /\ pc = "failed"
              /\ err = "Deck must have either DIMENS or SPECGRID."
              /\ calls = <<>>

C4_Witness ==
    /\ ctor = "deck"
    /\ path = "cornerpoint"
    /\ Has("DIMENS") /\ Has("SPECGRID")
    /\ FirstThree("DIMENS") # FirstThree("SPECGRID")
    /\ Called("create_grid_cornerpoint")
    /\ calls[1].grdecl.dims = FirstThree("DIMENS")

\* the lengths of DXV, DYV and DZV
Lens == <<Len(deck.data["DXV"]), Len(deck.data["DYV"]), Len(deck.data["DZV"])>>
\* the number of areal nodes of the tensor grid
ArealNodes == (Lens[1] + 1) * (Lens[2] + 1)

\* C5: a corner-point deck whose ZCORN length is not 8*nx*ny*nz or whose
\* COORD length is not 6*(nx+1)*(ny+1), for the declared dims, makes the
\* construction fail, and no mesh is held.
C5_SizeMismatchFails ==
    (/\ ctor = "deck"
     /\ path = "cornerpoint"
     /\ dims # <<>>
     /\ \/ Len(deck.data["ZCORN"]) # 8 * dims[1] * dims[2] * dims[3]
        \/ Len(deck.data["COORD"]) # 6 * (dims[1] + 1) * (dims[2] + 1))
    => (pc = "failed" /\ ug_ = NullGrid)

\* C6: on the tensor-grid path, declared dimensions that differ from the
\* lengths of DXV, DYV, DZV in some component make the constructor throw
\* 'Number of DXV/DYV/DZV data points do not match DIMENS or SPECGRID.',
\* naming a component that differs, without calling the tensor builder;
\* the builder is called only when all three components agree.
SizeError(k) ==
    "Number of " \o <<"DXV", "DYV", "DZV">>[k] \o " data points do not match DIMENS or SPECGRID."
C6_DimsMismatchFails ==
    /\ (ctor = "deck" /\ path = "tensorgrid" /\ dims # <<>> /\ dims # Lens) =>
          /\ pc = "failed"
          /\ calls = <<>>
          /\ \E k \in 1..3 : dims[k] # Lens[k] /\ err = SizeError(k)
    /\ Called("create_grid_tensor3d") =>
          /\ dims = Lens
          /\ <<calls[1].nx, calls[1].ny, calls[1].nz>> = Lens

C6_Witness ==
    /\ ctor = "deck"
    /\ path = "tensorgrid"
    /\ dims # <<>>
    /\ dims[1] = Lens[1] /\ dims[2] = Lens[2] /\ dims[3] # Lens[3]
    /\ pc = "failed"
    /\ err = "Number of DZV data points do not match DIMENS or SPECGRID."

\* C7: the x, y and z arrays given to the tensor builder are the running
\* sums of DXV, DYV and DZV: one entry more than the deltas, the first 0,
\* and each next one the previous one plus the delta between them.
Cumulative(coords, delta) ==
    /\ Len(coords) = Len(delta) + 1
    /\ coords[1] = 0
    /\ \A i \in 1..Len(delta) : coords[i + 1] = coords[i] + delta[i]
C7_CoordsAreCumulativeSums ==
    \A i \in 1..Len(calls) :
        calls[i].builder = "create_grid_tensor3d" =>
            /\ Cumulative(calls[i].x, deck.data["DXV"])
            /\ Cumulative(calls[i].y, deck.data["DYV"])
            /\ Cumulative(calls[i].z, deck.data["DZV"])

C7_Witness ==
    /\ Called("create_grid_tensor3d")
    /\ pc = "alive"
    /\ Len(calls[1].x) >= 3
    /\ Len(calls[1].z) >= 3
    /\ calls[1].x[2] > 0
    /\ calls[1].x[3] > calls[1].x[2]
    /\ calls[1].x[2] # calls[1].y[2]

\* the values the tensor builder reads through its top_depths argument
TopDepthsPassed(c) ==
    IF c.top_depths = "deck.DEPTHZ" THEN deck.data["DEPTHZ"]
    ELSE IF c.top_depths = "top_depths_vec" THEN c.top_depths_vec
    ELSE <<>>
Uniform(v) == \A i, j \in 1..Len(v) : v[i] = v[j]

\* C8: on the tensor-grid path without DEPTHZ: equal TOPS values reach
\* the builder as (nx+1)*(ny+1) top depths, each that value; TOPS values
\* that differ make the constructor throw without calling the builder;
\* with neither DEPTHZ nor TOPS the builder gets no top depths.
C8_TopsBroadcast ==
    (ctor = "deck" /\ path = "tensorgrid" /\ ~Has("DEPTHZ")) =>
        /\ (Has("TOPS") /\ Uniform(deck.data["TOPS"])) =>
              /\ dims = Lens => Called("create_grid_tensor3d")
              /\ Called("create_grid_tensor3d") =>
                    /\ calls[1].top_depths # NULL
                    /\ Len(TopDepthsPassed(calls[1])) = (calls[1].nx + 1) * (calls[1].ny + 1)
                    /\ \A i \in 1..Len(TopDepthsPassed(calls[1])) :
                          TopDepthsPassed(calls[1])[i] = deck.data["TOPS"][1]
        /\ (Has("TOPS") /\ ~Uniform(deck.data["TOPS"])) =>
              /\ pc = "failed"
              /\ calls = <<>>
              /\ dims = Lens =>
                    err = "We do not support nonuniform TOPS, please use ZCORN/COORDS instead."
        /\ ~Has("TOPS") =>
              /\ dims = Lens => Called("create_grid_tensor3d")
              /\ Called("create_grid_tensor3d") => calls[1].top_depths = NULL

C8_Witness ==
    /\ ctor = "deck"
    /\ path = "tensorgrid"
    /\ ~Has("DEPTHZ") /\ Has("TOPS")
    /\ pc = "alive"
    /\ Called("create_grid_tensor3d")
    /\ calls[1].nx # calls[1].ny
    /\ Len(TopDepthsPassed(calls[1])) = (calls[1].nx + 1) * (calls[1].ny + 1)
    /\ TopDepthsPassed(calls[1])[1] = 5

\* C9: on the tensor-grid path with DEPTHZ: a DEPTHZ whose length is not
\* (nx+1)*(ny+1) makes the constructor throw ('Incorrect size of DEPTHZ'
\* once the dimensions agree) without calling the builder; otherwise the
\* builder gets the DEPTHZ values as its top depths.
C9_DepthzSize ==
    (ctor = "deck" /\ path = "tensorgrid" /\ Has("DEPTHZ")) =>
        /\ Len(deck.data["DEPTHZ"]) # ArealNodes =>
              /\ pc = "failed"
              /\ calls = <<>>
              /\ dims = Lens =>
                    err = "Incorrect size of DEPTHZ: " \o ToString(Len(deck.data["DEPTHZ"]))
        /\ (Len(deck.data["DEPTHZ"]) = ArealNodes /\ dims = Lens) =>
              Called("create_grid_tensor3d")
        /\ Called("create_grid_tensor3d") =>
              /\ calls[1].top_depths = "deck.DEPTHZ"
              /\ TopDepthsPassed(calls[1]) = deck.data["DEPTHZ"]
              /\ Len(TopDepthsPassed(calls[1])) = (calls[1].nx + 1) * (calls[1].ny + 1)

C9_Witness ==
    /\ ctor = "deck"
    /\ path = "tensorgrid"
    /\ Has("DEPTHZ")
    /\ dims = Lens
    /\ Len(deck.data["DEPTHZ"]) > ArealNodes
    /\ pc = "failed"
    /\ err = "Incorrect size of DEPTHZ: " \o ToString(Len(deck.data["DEPTHZ"]))

\* C10: once the deck corner-point construction is over, the builder
\* having returned a mesh or NULL, every MAPAXES buffer that createGrdecl
\* allocated has been freed exactly once (createGrdecl was called by the
\* constructor only, so that every buffer is the constructor's).
C10_MapaxesFreedOnce ==
    (/\ ctor = "deck" /\ path = "cornerpoint" /\ pc \in {"alive", "failed"}
     /\ standalone.pc = "idle") =>
        \A b \in DOMAIN heap : heap[b].frees = 1

\* C11: a GridManager that exists holds the one mesh that the one builder
\* call of its constructor returned; while it exists neither its handle
\* nor its builder calls change; destroy_grid is called on that handle
\* once, by the destructor and not before; and, the builders returning
\* only meshes that are not live, two GridManagers that exist never hold
\* the same handle: every live mesh is held by exactly one of them, and
\* no mesh is destroyed more often than a builder returned it.
C11_MeshLifecycle ==
    /\ [](pc \in {"alive", "destroyed"} =>
            /\ Len(calls) = 1
            /\ calls[1].returned = ug_
            /\ ug_ # NullGrid)
    /\ [](pc \in {"start", "failed", "alive"} => destroyed = <<>>)
    /\ [](pc = "destroyed" => destroyed = <<ug_>>)
    /\ [][(pc \in {"alive", "destroyed"}) => (ug_' = ug_ /\ calls' = calls)]_vars
    /\ [][(destroyed' # destroyed) => (pc = "alive" /\ pc' = "destroyed")]_vars
    /\ [](other.pc \in {"alive", "destroyed"} =>
            /\ Len(other.calls) = 1
            /\ other.calls[1].returned = other.ug_
            /\ other.ug_ # NullGrid)
    /\ [](other.pc = "destroyed" <=> other.destroyed = <<other.ug_>>)
    /\ []((pc = "alive" /\ other.pc = "alive") => c_grid(ug_) # c_grid(other.ug_))
    /\ [](\A a \in MeshAddresses :
            Live(a) <=> ((pc = "alive" /\ c_grid(ug_) = a)
                            \/ (other.pc = "alive" /\ c_grid(other.ug_) = a)))
    /\ [](\A a \in MeshAddresses : NumDestroyed(a) <= NumReturned(a))

C11_Witness ==
    /\ pc = "destroyed"
    /\ ctor = "deck"
    /\ path = "tensorgrid"
    /\ destroyed = <<ug_>>
    /\ other.pc = "alive"
    /\ other.ug_ = ug_

\* the messages of the failures of a construction
FailureMessages ==
    {"Could not initialize grid from deck. Need either ZCORN + COORD or DXV + DYV + DZV keywords.",
     "Deck must have either DIMENS or SPECGRID.",
     "We do not support nonuniform TOPS, please use ZCORN/COORDS instead.",
     "Failed to construct grid."}
        \cup {SizeError(k) : k \in 1..3}
        \cup {"Incorrect size of DEPTHZ: " \o ToString(Len(deck.data["DEPTHZ"]))}
        \cup {"Failed to read grid from file " \o f : f \in Filenames}
NullBuilderMessages ==
    {"Failed to construct grid."} \cup {"Failed to read grid from file " \o f : f \in Filenames}

\* C12: every construction that fails throws the one exception type, with
\* one of the descriptive messages; it fails at its first failure: before
\* any builder call, or right after the one builder call that returned
\* NULL, which is not repeated; and a construction that does not fail
\* throws nothing.
C12_SingleErrorKindNoRetry ==
    /\ pc = "failed" =>
          /\ kind = "std::runtime_error"
          /\ err \in FailureMessages
          /\ ug_ = NullGrid
          /\ Len(calls) <= 1
          /\ err \in NullBuilderMessages <=> Len(calls) = 1
          /\ Len(calls) = 1 => calls[1].returned = NullGrid
    /\ pc # "failed" => (kind = "" /\ err = "")

C12_Witness ==
    /\ pc = "failed"
    /\ ctor = "deck"
    /\ path = "tensorgrid"
    /\ kind = "std::runtime_error"
    /\ Len(calls) = 1
    /\ calls[1].returned = NullGrid
    /\ err = "Failed to construct grid."

\* C13: on the tensor-grid path with both DEPTHZ and TOPS the TOPS values
\* play no part: the constructor never throws the non-uniform TOPS error,
\* a DEPTHZ of the right length reaches the builder whatever the TOPS
\* values are, and the builder's top depths are the DEPTHZ values, with
\* top_depths_vec left empty; the non-uniform TOPS error is thrown only for
\* a deck with non-uniform TOPS and no DEPTHZ.
C13_DepthzBeforeTops ==
    /\ (ctor = "deck" /\ path = "tensorgrid" /\ Has("DEPTHZ") /\ Has("TOPS")) =>
          /\ err # NonuniformTopsError
          /\ (dims = Lens /\ Len(deck.data["DEPTHZ"]) = ArealNodes) =>
                Called("create_grid_tensor3d")
          /\ Called("create_grid_tensor3d") =>
                /\ calls[1].top_depths = "deck.DEPTHZ"
                /\ calls[1].top_depths_vec = <<>>
                /\ TopDepthsPassed(calls[1]) = deck.data["DEPTHZ"]
    /\ err = NonuniformTopsError =>
          /\ ctor = "deck"
          /\ ~Has("DEPTHZ")
          /\ Has("TOPS")
          /\ ~Uniform(deck.data["TOPS"])

C13_Witness ==
    /\ ctor = "deck"
    /\ path = "tensorgrid"
    /\ Has("DEPTHZ") /\ Has("TOPS")
    /\ ~Uniform(deck.data["TOPS"])
    /\ pc = "alive"
    /\ Called("create_grid_tensor3d")
    /\ TopDepthsPassed(calls[1]) = deck.data["DEPTHZ"]
    /\ \E i \in 1..Len(deck.data["DEPTHZ"]) : deck.data["DEPTHZ"][i] # deck.data["TOPS"][1]

\* what mx_init_grdecl requires of the struct mx.s, with nx, ny, nz the
\* three cartDims numbers as ints
MxDims == [i \in 1..3 |-> DoubleToInt(mx.s.cartDims.pr[i])]
CartDimsOk == mx.s.cartDims.numel = 3
ActnumOk ==
    /\ mx.s.ACTNUM.classID = "mxINT32_CLASS"
    /\ mx.s.ACTNUM.numel = MxDims[1] * MxDims[2] * MxDims[3]
CoordOk ==
    /\ mx.s.COORD.classID = "mxDOUBLE_CLASS"
    /\ mx.s.COORD.numel = 6 * (MxDims[1] + 1) * (MxDims[2] + 1)
ZcornOk ==
    /\ mx.s.ZCORN.classID = "mxDOUBLE_CLASS"
    /\ mx.s.ZCORN.numel = 8 * MxDims[1] * MxDims[2] * MxDims[3]

\* C14: mx_init_grdecl returns exactly when cartDims has 3 elements, ACTNUM
\* is int32 with nx*ny*nz elements, COORD is double with 6*(nx+1)*(ny+1)
\* elements and ZCORN is double with 8*nx*ny*nz elements; otherwise it
\* raises the message of the first of these that fails; when it returns,
\* g->dims are the cartDims numbers as ints, g->actnum, g->coord and
\* g->zcorn are the data of the fields, and the field sizes agree with
\* g->dims.
C14_MxInitGrdeclChecks ==
    mx.pc # "idle" =>
        /\ mx.pc = "returned" <=> (CartDimsOk /\ ActnumOk /\ CoordOk /\ ZcornOk)
        /\ mx.pc = "returned" <=> mx.err = ""
        /\ mx.pc = "error" =>
              mx.err = IF ~CartDimsOk THEN "cartDims field must be 3 numbers"
                       ELSE IF ~ActnumOk THEN "ACTNUM field must be nx*ny*nz numbers int32"
                       ELSE IF ~CoordOk THEN "COORD field must have 6*(nx+1)*(ny+1) doubles."
                       ELSE "ZCORN field must have 8*nx*ny*nz doubles."
        /\ mx.pc = "returned" =>
              /\ mx.g.dims = MxDims
              /\ mx.g.actnum = mx.s.ACTNUM.pr
              /\ mx.g.coord = mx.s.COORD.pr
              /\ mx.g.zcorn = mx.s.ZCORN.pr
              /\ mx.s.ACTNUM.numel = mx.g.dims[1] * mx.g.dims[2] * mx.g.dims[3]
              /\ mx.s.COORD.numel = 6 * (mx.g.dims[1] + 1) * (mx.g.dims[2] + 1)
              /\ mx.s.ZCORN.numel = 8 * mx.g.dims[1] * mx.g.dims[2] * mx.g.dims[3]

C14_Witness ==
    /\ mx.pc = "returned"
    /\ mx.g.dims = <<1, 2, 1>>
    /\ mx.s.ACTNUM.numel = 2
    /\ mx.s.COORD.numel = 36
    /\ mx.s.ZCORN.numel = 16
    /\ mx.g.coord = "s.COORD"

====
